---- MODULE Spec2Model ----
(***************************************************************************)
(* fuzzy4: four-valued fuzzy logic (src/src/fuzzy4/core.py).               *)
(*                                                                         *)
(* A FuzzyBool is an immutable pair (t, f) of Python floats.  The model    *)
(* keeps the floating-point nature of the components: a float is a binary  *)
(* floating-point number with SigBits significant bits, rounded to nearest *)
(* with ties to even after every arithmetic operation, exactly as IEEE-754 *)
(* doubles are (which carry 53 bits).  A float is represented by the       *)
(* integer number of units of 2^-FracBits it holds, so 1.0 is One.         *)
(***************************************************************************)
EXTENDS Integers, Sequences, FiniteSets, TLC

\* ------------------------------------------------------------------------
\* Bounds of the model
\* ------------------------------------------------------------------------

\* Significant bits of a float (53 in the program's doubles).
SigBits == 8

\* The equality tolerance, in units in the last place of a float just below
\* 1.0.  The program's 1e-9 is about 2^23 such units of a double; the model
\* keeps the order "rounding error < tolerance < distance of the inputs".
TolUlps == 8

\* Operations applied in a row to a constructed value.
MaxOps == 2

\* ------------------------------------------------------------------------
\* Floats
\* ------------------------------------------------------------------------

\* Fraction bits of the representation: the smallest positive float is
\* 2^-FracBits, the floats below 2^-(FracBits-SigBits+1) are subnormal.
FracBits == SigBits + 3

One == 2 ^ FracBits

\* Spacing of the floats in [0.5, 1.0).
Ulp == 2 ^ (FracBits - SigBits)

Abs(n) == IF n < 0 THEN -n ELSE n

Sign(n) == IF n < 0 THEN -1 ELSE 1

RECURSIVE Scale(_, _)
\* The smallest d * 2^j for which a / (d * 2^j) has at most SigBits bits.
Scale(a, d) == IF a \div d < 2 ^ SigBits THEN d ELSE Scale(a, 2 * d)

\* num / den (den > 0), in units, rounded to the nearest float, ties to even.
RN(num, den) ==
    LET a == Abs(num)
        d == Scale(a, den)
        q == a \div d
        r == a % d
        m == IF 2 * r > d \/ (2 * r = d /\ q % 2 = 1) THEN q + 1 ELSE q
    IN  Sign(num) * m * (d \div den)

\* The float a decimal literal num/den of the source denotes.
Lit(num, den) == RN(num * One, den)

FAdd(a, b) == RN(a + b, 1)

FSub(a, b) == RN(a - b, 1)

FMul(a, b) == RN(a * b, One)

\* a / b for b # 0.
FDiv(a, b) == RN(Sign(b) * a * One, Abs(b))

FMin(a, b) == IF b < a THEN b ELSE a

FMax(a, b) == IF b > a THEN b ELSE a

\* ------------------------------------------------------------------------
\* Module-level helpers
\* ------------------------------------------------------------------------

\* max(0.0, min(1.0, value)) without the upper limit.
ClampNoUpper(value) == FMax(0, value)

_clamp(value) == FMax(0, FMin(One, value))

_t_norm(a, b) == FMul(a, b)

_s_norm(a, b) == FSub(FAdd(a, b), FMul(a, b))

\* ------------------------------------------------------------------------
\* Python objects
\* ------------------------------------------------------------------------

PyNone == [kind |-> "NoneType"]

PyFloat(v) == [kind |-> "float", v |-> v]

\* An int n; arithmetic with a float converts it to the float n.0.
PyInt(n) == [kind |-> "int", v |-> n * One]

\* True is the int 1 and False the int 0: bool is a subclass of int.
PyBool(b) == [kind |-> "bool", v |-> IF b THEN One ELSE 0]

\* A str of len characters.
PyStr(len) == [kind |-> "str", len |-> len]

PyList(items) == [kind |-> "list", items |-> items]

PyGenerator(items) == [kind |-> "generator", items |-> items]

\* The value a method returns to decline an operand.
NotImplemented == [kind |-> "NotImplemented"]

\* The outcome of a call that raised.
Raise(exc) == [kind |-> "raise", exc |-> exc]

IsFuzzyBool(obj) == obj.kind = "FuzzyBool"

\* isinstance(obj, (int, float)).
IsNumber(obj) == obj.kind \in {"int", "float", "bool"}

\* hasattr(obj, '__iter__').
IsIterable(obj) == obj.kind \in {"list", "generator", "str"}

\* What iterating obj yields: the characters of a str are strs of length 1.
Items(obj) ==
    IF obj.kind = "str" THEN [i \in 1..obj.len |-> PyStr(1)] ELSE obj.items

\* ------------------------------------------------------------------------
\* class FuzzyBool
\* ------------------------------------------------------------------------

\* The dataclass constructor followed by __post_init__.
FuzzyBool(t, f) == [kind |-> "FuzzyBool", t |-> _clamp(t), f |-> _clamp(f)]

TRUE_ == FuzzyBool(One, 0)

FALSE_ == FuzzyBool(0, One)

UNKNOWN == FuzzyBool(0, 0)

CONFLICT == FuzzyBool(One, One)

truth(self) == _t_norm(self.t, FSub(One, self.f))

falsity(self) == _t_norm(self.f, FSub(One, self.t))

\* The unknown degree without the complement of the refutation.
UnknownOfRefutation(self) == _t_norm(FSub(One, self.t), self.f)

unknown(self) == _t_norm(FSub(One, self.t), FSub(One, self.f))

conflict(self) == _t_norm(self.t, self.f)

\* Negation of the confirmation alone.
InvertConfirmation(self) == FuzzyBool(FSub(One, self.t), self.f)

__invert__(self) == FuzzyBool(self.f, self.t)

\* Conjunction with the two norms exchanged.
AndNormsSwapped(self, other) ==
    IF ~IsFuzzyBool(other) THEN NotImplemented
    ELSE FuzzyBool(_s_norm(self.t, other.t), _t_norm(self.f, other.f))

__and__(self, other) ==
    IF ~IsFuzzyBool(other) THEN NotImplemented
    ELSE FuzzyBool(_t_norm(self.t, other.t), _s_norm(self.f, other.f))

__or__(self, other) ==
    IF ~IsFuzzyBool(other) THEN NotImplemented
    ELSE FuzzyBool(_s_norm(self.t, other.t), _t_norm(self.f, other.f))

\* Implication that leaves out the negation of the antecedent.
RshiftWithoutNegation(self, other) ==
    IF ~IsFuzzyBool(other) THEN NotImplemented
    ELSE __or__(self, other)

__rshift__(self, other) ==
    IF ~IsFuzzyBool(other) THEN NotImplemented
    ELSE __or__(__invert__(self), other)

\* The literal 1e-9 of __eq__ and the 9 decimals of __hash__, as a float.
EPS == TolUlps * Ulp

__eq__(self, other) ==
    IF ~IsFuzzyBool(other) THEN NotImplemented
    ELSE /\ Abs(FSub(self.t, other.t)) < EPS
         /\ Abs(FSub(self.f, other.f)) < EPS

\* round(v, 9): the nearest multiple of the decimal quantum, ties to even.
round9(v) ==
    LET q == v \div EPS
        r == v % EPS
    IN  IF 2 * r > EPS \/ (2 * r = EPS /\ q % 2 = 1) THEN (q + 1) * EPS
        ELSE q * EPS

\* hash of a tuple of floats: equal tuples hash equal, and the model takes
\* different tuples to hash differently.
__hash__(self) == <<round9(self.t), round9(self.f)>>

\* Accumulation that keeps the receiver's refutation.
AddKeepsRefutation(self, other) ==
    IF ~IsFuzzyBool(other) THEN NotImplemented
    ELSE FuzzyBool(_s_norm(self.t, other.t), self.f)

__add__(self, other) ==
    IF ~IsFuzzyBool(other) THEN NotImplemented
    ELSE FuzzyBool(_s_norm(self.t, other.t), _s_norm(self.f, other.f))

__mul__(self, other) ==
    IF IsFuzzyBool(other)
    THEN FuzzyBool(FMul(self.t, other.t), FMul(self.f, other.f))
    ELSE IF IsNumber(other)
    THEN FuzzyBool(FMul(self.t, other.v), FMul(self.f, other.v))
    ELSE NotImplemented

__rmul__(self, other) == __mul__(self, other)

\* Division that lets a zero component of the divisor through as 1.0.
TruedivNoZeroPolicy(self, other) ==
    IF IsFuzzyBool(other)
    THEN FuzzyBool(IF other.t # 0 THEN FDiv(self.t, other.t) ELSE One,
                   IF other.f # 0 THEN FDiv(self.f, other.f) ELSE One)
    ELSE IF IsNumber(other)
    THEN IF other.v = 0 THEN FuzzyBool(One, One)
         ELSE FuzzyBool(FDiv(self.t, other.v), FDiv(self.f, other.v))
    ELSE NotImplemented

__truediv__(self, other) ==
    IF IsFuzzyBool(other)
    THEN FuzzyBool(IF other.t # 0 THEN FDiv(self.t, other.t) ELSE 0,
                   IF other.f # 0 THEN FDiv(self.f, other.f) ELSE 0)
    ELSE IF IsNumber(other)
    THEN IF other.v = 0 THEN FuzzyBool(0, 0)
         ELSE FuzzyBool(FDiv(self.t, other.v), FDiv(self.f, other.v))
    ELSE NotImplemented

\* What the interpreter makes of a binary operator whose method declined
\* the operand: no reflected method of the other operand takes a FuzzyBool,
\* so the operator raises TypeError.
BinaryOp(result) ==
    IF result.kind = "NotImplemented" THEN Raise("TypeError") ELSE result

\* (self >> other) & (other >> self): the first operator that raises ends
\* the call.
iff(self, other) ==
    LET ab == BinaryOp(__rshift__(self, other)) IN
    IF ab.kind = "raise" THEN ab
    ELSE LET ba == BinaryOp(__rshift__(other, self)) IN
         IF ba.kind = "raise" THEN ba ELSE BinaryOp(__and__(ab, ba))

\* A str with its characters.
PyText(text) == [kind |-> "str", text |-> text]

\* The keys of the components dict, in insertion order.
StateNames == <<"true", "false", "unknown", "conflict">>

\* max over the keys called without key=: the greatest name.
DominantByName(self) == "unknown"

\* max(components, key=components.get): the first key, in insertion order,
\* whose value none of the others exceeds.
dominant_state(self) ==
    LET components == [true |-> truth(self), false |-> falsity(self),
                       unknown |-> unknown(self), conflict |-> conflict(self)]
        best == CHOOSE i \in 1..4 :
                    /\ \A j \in 1..4 :
                           components[StateNames[j]] <= components[StateNames[i]]
                    /\ \A j \in 1..(i - 1) :
                           components[StateNames[j]] < components[StateNames[i]]
    IN  StateNames[best]

DecimalDigits == <<"0", "1", "2", "3", "4", "5", "6", "7", "8", "9">>

\* format(v, ".2f") of a float in [0, 1]: the exact value rounded to the
\* nearest hundredth, ties to even, written with two decimals.
Format2f(v) ==
    LET q == (100 * v) \div One
        r == (100 * v) % One
        h == IF 2 * r > One \/ (2 * r = One /\ q % 2 = 1) THEN q + 1 ELSE q
    IN  DecimalDigits[(h \div 100) + 1] \o "."
            \o DecimalDigits[((h \div 10) % 10) + 1]
            \o DecimalDigits[(h % 10) + 1]

__str__(self) ==
    LET state == dominant_state(self) IN
    PyText("(" \o Format2f(self.t) \o ", " \o Format2f(self.f)
               \o ") [" \o state \o "]")

from_crisp(value) == IF value THEN TRUE_ ELSE FALSE_

from_probability(p) ==
    LET q == _clamp(p) IN FuzzyBool(q, FSub(One, q))

RECURSIVE FlattenItemsSkipping(_, _)
\* The inner loop passing over the items that are no FuzzyBool.
FlattenItemsSkipping(items, values) ==
    IF items = <<>> THEN PyList(values)
    ELSE IF IsFuzzyBool(Head(items))
    THEN FlattenItemsSkipping(Tail(items), Append(values, Head(items)))
    ELSE FlattenItemsSkipping(Tail(items), values)

RECURSIVE FlattenItems(_, _)
\* for item in arg: values.append(item), or raise at the first item that is
\* no FuzzyBool.
FlattenItems(items, values) ==
    IF items = <<>> THEN PyList(values)
    ELSE IF IsFuzzyBool(Head(items))
    THEN FlattenItems(Tail(items), Append(values, Head(items)))
    ELSE Raise("TypeError")

RECURSIVE Flatten(_, _)
\* for arg in args: the flattening loop of accumulate.
Flatten(args, values) ==
    IF args = <<>> THEN PyList(values)
    ELSE IF IsFuzzyBool(Head(args))
    THEN Flatten(Tail(args), Append(values, Head(args)))
    ELSE IF IsIterable(Head(args))
    THEN LET inner == FlattenItems(Items(Head(args)), values) IN
         IF inner.kind = "raise" THEN inner
         ELSE Flatten(Tail(args), inner.items)
    ELSE Raise("TypeError")

RECURSIVE Fold(_, _)
\* for v in values[1:]: result = result + v.
Fold(result, rest) ==
    IF rest = <<>> THEN result
    ELSE Fold(BinaryOp(__add__(result, Head(rest))), Tail(rest))

\* accumulate folding over values instead of values[1:].
AccumulateFoldsAll(args) ==
    LET values == Flatten(args, <<>>) IN
    IF values.kind = "raise" THEN values
    ELSE IF values.items = <<>> THEN Raise("ValueError")
    ELSE Fold(Head(values.items), values.items)

accumulate(args) ==
    LET values == Flatten(args, <<>>) IN
    IF values.kind = "raise" THEN values
    ELSE IF values.items = <<>> THEN Raise("ValueError")
    ELSE Fold(Head(values.items), Tail(values.items))

\* ------------------------------------------------------------------------
\* Inputs
\* ------------------------------------------------------------------------

\* Constructor arguments: below 0, inside [0, 1] and above 1.
RawVals ==
    {Lit(-3, 10), 0, Lit(2, 10), Lit(5, 10), Lit(6, 10), Lit(8, 10), One,
     Lit(15, 10)}

\* FuzzyBool operands: the canonical constants and values of the test suite.
Others ==
    {TRUE_, FALSE_, UNKNOWN, CONFLICT,
     FuzzyBool(Lit(6, 10), Lit(3, 10)), FuzzyBool(Lit(4, 10), Lit(3, 10)),
     FuzzyBool(0, Lit(5, 10)), FuzzyBool(Lit(2, 10), 0)}

Scalars ==
    {PyInt(0), PyInt(2), PyFloat(Lit(5, 10)), PyFloat(Lit(-5, 10)),
     PyBool(TRUE)}

NonOperands == {PyNone, PyStr(3)}

Operands == Others \cup Scalars \cup NonOperands

\* Values handed to accumulate.
AccVals ==
    {FuzzyBool(Lit(3, 10), 0), FuzzyBool(Lit(5, 10), Lit(3, 10)),
     FuzzyBool(Lit(4, 10), Lit(2, 10)), TRUE_}

\* What else an argument of accumulate, or an element of one, may be.
AccOthers == {PyInt(5), PyStr(0), PyStr(3)}

\* Values accumulate flattens, at most.
MaxArgs == 3

RECURSIVE SeqsUpTo(_, _)
\* The sequences over S of length at most k.
SeqsUpTo(S, k) ==
    IF k = 0 THEN {<<>>}
    ELSE LET shorter == SeqsUpTo(S, k - 1) IN
         shorter \cup {Append(q, e) : q \in shorter, e \in S}

\* The ways a caller hands a sequence of values to accumulate.
Shapes == {"args", "list", "generator", "mixed", "nested"}

Pack(q, shape) ==
    CASE shape = "args" -> q
      [] shape = "list" -> <<PyList(q)>>
      [] shape = "generator" -> <<PyGenerator(q)>>
      [] shape = "mixed" ->
            IF q = <<>> THEN <<PyList(q)>> ELSE <<Head(q), PyList(Tail(q))>>
      [] shape = "nested" -> <<PyList(<<PyList(q)>>)>>

ArgLists ==
    {Pack(q, shape) : q \in SeqsUpTo(AccVals \cup AccOthers, MaxArgs),
                      shape \in Shapes}

\* ------------------------------------------------------------------------
\* State: a caller's session with the library
\* ------------------------------------------------------------------------

VARIABLES
    x,      \* outcome of the last call: a FuzzyBool, or the exception raised
    op,     \* the last call
    self,   \* its receiver (None for a constructor or a class method)
    arg,    \* its argument
    n       \* calls made since the construction

vars == <<x, op, self, arg, n>>

PyTuple(items) == [kind |-> "tuple", items |-> items]

\* The caller has the last outcome in hand and may make another call.
Ready == op = "ready" /\ n < MaxOps

Call(name, receiver, argument, outcome) ==
    /\ op' = name
    /\ self' = receiver
    /\ arg' = argument
    /\ x' = outcome
    /\ n' = n + 1

\* FuzzyBool(t, f)
Init ==
    \E t \in RawVals, f \in RawVals :
        /\ x = FuzzyBool(t, f)
        /\ op = "FuzzyBool"
        /\ self = PyNone
        /\ arg = PyTuple(<<PyFloat(t), PyFloat(f)>>)
        /\ n = 0

\* Nothing constructed or called yet.
InitAcc ==
    /\ x = PyNone
    /\ op = "ready"
    /\ self = PyNone
    /\ arg = PyNone
    /\ n = 0

\* The caller keeps the outcome of the last call and nothing else of it.
Continue ==
    /\ op # "ready"
    /\ op' = "ready"
    /\ self' = PyNone
    /\ arg' = PyNone
    /\ UNCHANGED <<x, n>>

FromCrisp ==
    /\ Ready
    /\ \E b \in BOOLEAN : Call("from_crisp", PyNone, PyBool(b), from_crisp(b))

FromProbability ==
    /\ Ready
    /\ \E p \in RawVals :
           Call("from_probability", PyNone, PyFloat(p), from_probability(p))

Invert ==
    /\ Ready
    /\ IsFuzzyBool(x)
    /\ Call("~", x, PyNone, __invert__(x))

And ==
    /\ Ready
    /\ IsFuzzyBool(x)
    /\ \E o \in Operands : Call("&", x, o, BinaryOp(__and__(x, o)))

Or ==
    /\ Ready
    /\ IsFuzzyBool(x)
    /\ \E o \in Operands : Call("|", x, o, BinaryOp(__or__(x, o)))

Rshift ==
    /\ Ready
    /\ IsFuzzyBool(x)
    /\ \E o \in Operands : Call(">>", x, o, BinaryOp(__rshift__(x, o)))

Iff ==
    /\ Ready
    /\ IsFuzzyBool(x)
    /\ \E o \in Operands : Call("iff", x, o, iff(x, o))

Add ==
    /\ Ready
    /\ IsFuzzyBool(x)
    /\ \E o \in Operands : Call("+", x, o, BinaryOp(__add__(x, o)))

Mul ==
    /\ Ready
    /\ IsFuzzyBool(x)
    /\ \E o \in Operands : Call("*", x, o, BinaryOp(__mul__(x, o)))

\* scalar * x: the scalar's own __mul__ declines a FuzzyBool.
Rmul ==
    /\ Ready
    /\ IsFuzzyBool(x)
    /\ \E o \in Scalars \cup NonOperands :
           Call("r*", x, o, BinaryOp(__rmul__(x, o)))

Truediv ==
    /\ Ready
    /\ IsFuzzyBool(x)
    /\ \E o \in Operands : Call("/", x, o, BinaryOp(__truediv__(x, o)))

DominantState ==
    /\ Ready
    /\ IsFuzzyBool(x)
    /\ Call("dominant_state", x, PyNone, PyText(dominant_state(x)))

Str ==
    /\ Ready
    /\ IsFuzzyBool(x)
    /\ Call("str", x, PyNone, __str__(x))

\* accumulate called on the current value and further operands.
AccMenu ==
    IF IsFuzzyBool(x)
    THEN {<<x>>, <<PyList(<<x>>)>>}
         \cup {<<x, o>> : o \in Others \cup NonOperands}
         \cup {<<PyList(<<x, o>>)>> : o \in Others \cup NonOperands}
    ELSE {<<>>}

Accumulate(menu) ==
    /\ Ready
    /\ \E args \in menu :
           Call("accumulate", PyNone, PyTuple(args), accumulate(args))

Next ==
    \/ Continue
    \/ FromCrisp
    \/ FromProbability
    \/ Invert
    \/ And
    \/ Or
    \/ Rshift
    \/ Iff
    \/ Add
    \/ Mul
    \/ Rmul
    \/ Truediv
    \/ DominantState
    \/ Str
    \/ Accumulate(AccMenu)

Spec == Init /\ [][Next]_vars

NextAcc == Continue \/ Accumulate(ArgLists)

\* accumulate alone, over every way of handing it up to MaxArgs values.
SpecAcc == InitAcc /\ [][NextAcc]_vars

\* ------------------------------------------------------------------------
\* Claims
\* ------------------------------------------------------------------------

Canonical == {TRUE_, FALSE_, UNKNOWN, CONFLICT}

InUnit(v) == 0 <= v /\ v <= One

\* a == b of two FuzzyBools.
Equal(a, b) == IsFuzzyBool(a) /\ IsFuzzyBool(b) /\ __eq__(a, b)

\* C1: every FuzzyBool a call returns, whether a construction from arbitrary
\* reals, from_probability, from_crisp, or an operator or accumulate applied
\* to such values, has t and f in [0, 1]; FuzzyBool(1.5, -0.3) has t = 1 and
\* f = 0.
C1_RangeInvariant ==
    /\ IsFuzzyBool(x) => InUnit(x.t) /\ InUnit(x.f)
    /\ IsFuzzyBool(self) => InUnit(self.t) /\ InUnit(self.f)
    /\ (op = "FuzzyBool"
        /\ arg = PyTuple(<<PyFloat(Lit(15, 10)), PyFloat(Lit(-3, 10))>>))
       => x.t = One /\ x.f = 0

\* FuzzyBool(1.5, -0.3) has been constructed.
C1_Witness ==
    /\ op = "FuzzyBool"
    /\ arg = PyTuple(<<PyFloat(Lit(15, 10)), PyFloat(Lit(-3, 10))>>)
    /\ x = TRUE_

\* The reference truth tables of the test suite, by the index of the
\* operands in <<TRUE, FALSE, UNKNOWN, CONFLICT>>.
CanonicalSeq == <<TRUE_, FALSE_, UNKNOWN, CONFLICT>>

AndTable ==
    <<  <<TRUE_, FALSE_, UNKNOWN, CONFLICT>>,
        <<FALSE_, FALSE_, FALSE_, FALSE_>>,
        <<UNKNOWN, FALSE_, UNKNOWN, FALSE_>>,
        <<CONFLICT, FALSE_, FALSE_, CONFLICT>>  >>

OrTable ==
    <<  <<TRUE_, TRUE_, TRUE_, TRUE_>>,
        <<TRUE_, FALSE_, UNKNOWN, CONFLICT>>,
        <<TRUE_, UNKNOWN, UNKNOWN, TRUE_>>,
        <<TRUE_, CONFLICT, TRUE_, CONFLICT>>  >>

Index(v) == CHOOSE i \in 1..4 : CanonicalSeq[i] = v

C3_DeMorgan ==
    /\ op = "~" =>
          /\ x.t = self.f /\ x.f = self.t
          /\ Equal(__invert__(x), self)
    /\ (op = "&" /\ IsFuzzyBool(arg)) =>
          Equal(__invert__(x), __or__(__invert__(self), __invert__(arg)))
    /\ (op = "|" /\ IsFuzzyBool(arg)) =>
          Equal(__invert__(x), __and__(__invert__(self), __invert__(arg)))

\* A conjunction of two values that are neither canonical nor symmetric has
\* been computed.
C3_Witness ==
    /\ op = "&"
    /\ IsFuzzyBool(arg)
    /\ self.t # self.f /\ arg.t # arg.f
    /\ {self.t, self.f, arg.t, arg.f} \cap {0, One} = {}
    /\ __invert__(x) = __or__(__invert__(self), __invert__(arg))

\* truth + falsity + unknown + conflict, as the float sum.
\* truth, falsity, unknown and conflict of v.
Components(v) == <<truth(v), falsity(v), unknown(v), conflict(v)>>

\* The float sum of four components, added left to right.
Sum(c) == FAdd(FAdd(FAdd(c[1], c[2]), c[3]), c[4])

ComponentSum(v) == Sum(Components(v))

AllInUnit(c) == \A i \in 1..4 : InUnit(c[i])

\* The components of the canonical constant x: the matching one is 1, the
\* other three are 0.
CanonicalComponents ==
    Components(x) = [i \in 1..4 |-> IF i = Index(x) THEN One ELSE 0]

\* C4 as stated: the four derived components of every FuzzyBool lie in
\* [0, 1] and sum to exactly 1; of each canonical constant the matching
\* component is 1 and the other three are 0.
C4_SumExactlyOne ==
    IsFuzzyBool(x) =>
        /\ LET c == Components(x) IN AllInUnit(c) /\ Sum(c) = One
        /\ x \in Canonical => CanonicalComponents

\* C4 as amended: the four derived components of every FuzzyBool lie in
\* [0, 1] and sum to 1 within the equality tolerance; of each canonical
\* constant the matching component is 1 and the other three are 0.
C4_SumWithinTolerance ==
    IsFuzzyBool(x) =>
        /\ LET c == Components(x) IN
           AllInUnit(c) /\ Abs(FSub(Sum(c), One)) < EPS
        /\ x \in Canonical => CanonicalComponents

\* A FuzzyBool whose components do not sum to 1 has been returned.
C4_Witness ==
    /\ IsFuzzyBool(x)
    /\ op # "ready"
    /\ ComponentSum(x) # One
    /\ Abs(FSub(ComponentSum(x), One)) < EPS

\* C5: x + UNKNOWN == x for every x; along a sequence of + operations t and
\* f never decrease (t of x + y is at least max(x.t, y.t), likewise f),
\* never exceed 1, and a component that has reached 1 stays 1.
C5_AccumulationSaturates ==
    (op = "+" /\ IsFuzzyBool(arg)) =>
        /\ Equal(__add__(self, UNKNOWN), self)
        /\ x.t >= FMax(self.t, arg.t) /\ x.f >= FMax(self.f, arg.f)
        /\ x.t <= One /\ x.f <= One
        /\ (One \in {self.t, arg.t}) => x.t = One
        /\ (One \in {self.f, arg.f}) => x.f = One

\* The values accumulate folds when it is handed args.
ValuesOf(args) == Flatten(args, <<>>).items

\* The orders in which the values of q can be handed over.
Perms(q) ==
    {[i \in 1..Len(q) |-> q[p[i]]] : p \in Permutations(1..Len(q))}

RECURSIVE Groupings(_)
\* The results of adding up the non-empty sequence q in order, under every
\* placement of parentheses.
Groupings(q) ==
    IF Len(q) = 1 THEN {q[1]}
    ELSE UNION {{__add__(a, b) : a \in Groupings(SubSeq(q, 1, i)),
                                 b \in Groupings(SubSeq(q, i + 1, Len(q)))}
                : i \in 1..(Len(q) - 1)}

\* C6: + is commutative and associative within the equality tolerance:
\* accumulate of any permutation of the values, and their sum under any
\* grouping, equals accumulate of the values.
C6_OrderIndependent ==
    (op = "accumulate" /\ IsFuzzyBool(x)) =>
        \A q \in Perms(ValuesOf(arg.items)) :
            /\ Equal(accumulate(q), x)
            /\ \A r \in Groupings(q) : Equal(r, x)

\* Three values have been accumulated whose sum in another order is another
\* float.
C6_Witness ==
    /\ op = "accumulate"
    /\ IsFuzzyBool(x)
    /\ Len(ValuesOf(arg.items)) = 3
    /\ \E q \in Perms(ValuesOf(arg.items)) : accumulate(q) # x

RECURSIVE OneLevel(_)
\* The arguments with one level of nesting removed: a FuzzyBool stands for
\* itself, an iterable for what it yields.
OneLevel(args) ==
    IF args = <<>> THEN <<>>
    ELSE (IF IsIterable(Head(args)) THEN Items(Head(args)) ELSE <<Head(args)>>)
         \o OneLevel(Tail(args))

AllValues(q) == \A i \in 1..Len(q) : IsFuzzyBool(q[i])

RECURSIVE LeftFold(_)
\* ((q[1] + q[2]) + ...) + q[Len(q)] of a non-empty sequence of values.
LeftFold(q) ==
    IF Len(q) = 1 THEN q[1]
    ELSE __add__(LeftFold(SubSeq(q, 1, Len(q) - 1)), q[Len(q)])

\* C7: accumulate returns the left fold of + over the one-level flattening
\* of its arguments, in argument order, and the same result when the same
\* values are handed over as separate arguments, as one list, as one
\* generator, or as a loose value followed by a list.
C7_LeftFoldOfFlattening ==
    LET q == OneLevel(arg.items) IN
    (op = "accumulate" /\ q # <<>> /\ AllValues(q)) =>
        /\ x = LeftFold(q)
        /\ \A shape \in {"args", "list", "generator", "mixed"} :
               accumulate(Pack(q, shape)) = x

\* accumulate(a, [b, c]) has returned (a + b) + c for three different values.
C7_Witness ==
    /\ op = "accumulate"
    /\ Len(arg.items) = 2
    /\ IsFuzzyBool(arg.items[1])
    /\ arg.items[2].kind = "list"
    /\ Len(arg.items[2].items) = 2
    /\ AllValues(arg.items[2].items)
    /\ Cardinality({arg.items[1], arg.items[2].items[1],
                    arg.items[2].items[2]}) = 3
    /\ x = __add__(__add__(arg.items[1], arg.items[2].items[1]),
                   arg.items[2].items[2])

\* C8: accumulate raises instead of returning in exactly two situations: a
\* ValueError when the flattening yields no value, a TypeError when an
\* argument that is not iterable, or an element of an iterable argument, is
\* no FuzzyBool (an element that is itself a sequence included), however
\* many values came before it; in every other case it returns a FuzzyBool.
C8_FailsInTwoSituations ==
    LET q == OneLevel(arg.items) IN
    op = "accumulate" =>
        /\ x = Raise("TypeError") <=> ~AllValues(q)
        /\ x = Raise("ValueError") <=> q = <<>>
        /\ IsFuzzyBool(x) <=> (q # <<>> /\ AllValues(q))

\* accumulate has raised TypeError on the element after two values.
C8_Witness ==
    LET q == OneLevel(arg.items) IN
    /\ op = "accumulate"
    /\ Len(q) = 3
    /\ IsFuzzyBool(q[1]) /\ IsFuzzyBool(q[2]) /\ ~IsFuzzyBool(q[3])
    /\ x = Raise("TypeError")

\* clamp of the claim: the value brought into [0, 1].
Clamp01(v) == IF v < 0 THEN 0 ELSE IF v > One THEN One ELSE v

\* A component of x / y under the zero policy.
Quotient(a, b) == IF b # 0 THEN Clamp01(FDiv(a, b)) ELSE 0

\* The worked examples: (0.8, 0.6) / (0.4, 0.3) is (1, 1) and
\* (0.5, 0.5) / (0, 0.5) is (0, 1).
DivisionExamples ==
    /\ (self = FuzzyBool(Lit(8, 10), Lit(6, 10))
        /\ arg = FuzzyBool(Lit(4, 10), Lit(3, 10))) => x = CONFLICT
    /\ (self = FuzzyBool(Lit(5, 10), Lit(5, 10))
        /\ arg = FuzzyBool(0, Lit(5, 10))) => x = FALSE_

C9_WitnessScalarZero ==
    /\ op = "/" /\ IsNumber(arg) /\ arg.v = 0
    /\ self.t > 0 /\ self.f > 0
    /\ x = UNKNOWN

\* The values the current value is compared with: the operands and the
\* receiver of the call that returned it.
Comparands == Others \cup (IF IsFuzzyBool(self) THEN {self} ELSE {})

\* C10: two FuzzyBools are equal iff both components differ by less than
\* the tolerance, and values that are equal have equal hashes.
C10_EqualImpliesSameHash ==
    IsFuzzyBool(x) =>
        \A y \in Comparands :
            /\ __eq__(x, y) <=> (Abs(x.t - y.t) < EPS /\ Abs(x.f - y.f) < EPS)
            /\ __eq__(x, y) => __hash__(x) = __hash__(y)

\* The binary operators; "r*" is * with the FuzzyBool on the right.
BinaryOps == {"&", "|", ">>", "iff", "+", "*", "r*", "/"}

\* A numeric scalar in the sense of the claim: an int or a float, a boolean
\* being an operand of another type.
IsNumericScalar(obj) == obj.kind \in {"int", "float"}

\* An operand the operator op is to reject.
InvalidOperand(operator, obj) ==
    /\ ~IsFuzzyBool(obj)
    /\ ~(operator \in {"*", "r*", "/"} /\ IsNumericScalar(obj))

\* C11: a binary operator applied to a FuzzyBool and an operand that is
\* neither a FuzzyBool nor, for * and / only, a numeric scalar raises
\* TypeError and returns no FuzzyBool; a boolean, a string and None are
\* such operands.
C11_InvalidOperandsRejected ==
    (op \in BinaryOps /\ InvalidOperand(op, arg)) => x = Raise("TypeError")

\* (~a) | b.
NotOr(a, b) == __or__(__invert__(a), b)

Crisp == {TRUE_, FALSE_}

\* C12: x >> y == (~x) | y and x.iff(y) == (x >> y) & (y >> x) for all x
\* and y; FALSE >> y == TRUE and TRUE >> y == y for every y; on crisp
\* operands iff is the classical equivalence.
C12_PureCompositions ==
    /\ (op = ">>" /\ IsFuzzyBool(arg)) =>
           /\ Equal(x, NotOr(self, arg))
           /\ self = FALSE_ => Equal(x, TRUE_)
           /\ self = TRUE_ => Equal(x, arg)
    /\ (op = "iff" /\ IsFuzzyBool(arg)) =>
           /\ Equal(x, __and__(NotOr(self, arg), NotOr(arg, self)))
           /\ (self \in Crisp /\ arg \in Crisp) =>
                  Equal(x, IF self = arg THEN TRUE_ ELSE FALSE_)

\* FALSE >> y has been computed for a y that is not canonical, and equals
\* TRUE.
C12_Witness ==
    /\ op = ">>" /\ self = FALSE_
    /\ IsFuzzyBool(arg) /\ arg \notin Canonical
    /\ Equal(x, TRUE_)

\* TRUE.iff(FALSE) has been computed, and is FALSE.
C12_WitnessIff ==
    /\ op = "iff" /\ self = TRUE_ /\ arg = FALSE_
    /\ x = FALSE_

\* The hundredth h is a nearest one to the float v.
NearestHundredth(v, h) == 2 * Abs(100 * v - h * One) <= One

\* h hundredths written with two decimals.
TwoDecimals(h) ==
    DecimalDigits[(h \div 100) + 1] \o "."
        \o DecimalDigits[((h \div 10) % 10) + 1] \o DecimalDigits[(h % 10) + 1]

\* The labels of the largest of the four derived components of v.
LargestComponents(v) ==
    LET c == Components(v) IN
    {StateNames[i] : i \in {k \in 1..4 : \A j \in 1..4 : c[j] <= c[k]}}

\* The renderings the rule allows for v: (t, f) to two decimals and the
\* label of a largest component.
Renderings(v) ==
    {"(" \o TwoDecimals(ht) \o ", " \o TwoDecimals(hf) \o ") [" \o label \o "]" :
        <<ht, hf, label>> \in
            {h \in 0..100 : NearestHundredth(v.t, h)}
                \X {h \in 0..100 : NearestHundredth(v.f, h)}
                \X LargestComponents(v)}

\* FuzzyBool(0.8, 0.2) & FuzzyBool(0.6, 0.3).
RenderedExample ==
    __and__(FuzzyBool(Lit(8, 10), Lit(2, 10)), FuzzyBool(Lit(6, 10), Lit(3, 10)))

====
